---- MODULE Spec2Model ----
(***************************************************************************)
(* A model of the lexer engine of lexer.go: the cursor over an immutable   *)
(* byte buffer, the backtracking history, the state runner and the token   *)
(* channel, in both execution modes (Start and StartSync).                 *)
(*                                                                         *)
(* The source is a sequence of bytes.  Offsets are 0-based as in the Go    *)
(* code: byte i of the Go string is source[i + 1] here.                    *)
(***************************************************************************)
EXTENDS Integers, Sequences, FiniteSets, TLC

VARIABLES
    source,     \* Lexer.source: the bytes of the input
    start,      \* Lexer.start
    position,   \* Lexer.position
    line,       \* Lexer.line
    history,    \* Lexer.history: the stack of runes, top last
    made,       \* whether l.tokens has been assigned by make(chan Token, buffSize)
    buf,        \* the tokens held by the channel's buffer, oldest first
    closes,     \* how many times close(l.tokens) ran
    mode,       \* "none" before a start call, then "sync" (StartSync) or "async" (Start)
    rpc,        \* where the thread that executes StartSync/run is
    pending,    \* the token a blocked send (l.tokens <- tok) is holding
    cpc,        \* where the consumer is: "idle" or "recv" (inside <-l.tokens)
    chRef,      \* the value of l.tokens the parked receive evaluated: "nil" or "chan"
    received,   \* the tokens NextToken has returned, in order
    donePulls,  \* NextToken calls that returned (nil, true), counted up to MaxDonePulls
    emitted     \* every token sent on the channel, in order (history of the sends)

vars == <<source, start, position, line, history, made, buf, closes, mode, rpc,
          pending, cpc, chRef, received, donePulls, emitted>>

cursorVars == <<start, position, line, history>>
chanVars == <<made, buf, closes, emitted>>
consumerVars == <<cpc, chRef, received, donePulls>>

----------------------------------------------------------------------------
(* Bounds of the model. *)

\* longest source of Spec, in bytes
MaxLen == 4
\* longest source of SpecSync, in bytes
MaxBytes == 2
\* most tokens a run sends or tries to send on the channel
MaxTokens == 2
\* deepest history stack (Next at the end of the buffer pushes without advancing)
MaxHist == 2
\* most end-of-stream results counted
MaxDonePulls == 2
\* most consecutive Next/Backup or Peek calls tried by the round-trip properties
MaxN == 3

----------------------------------------------------------------------------
(* Constants of the program and of the packages it calls. *)

EOFRune == -1
ErrorToken == -1
EOFToken == 0
\* utf8.RuneError, what DecodeRuneInString returns (with width 1) for a bad encoding
RuneError == 65533

\* The bytes sources are built from: '\n', '1', and 0xC2 0xA0, which together
\* encode U+00A0 (a Unicode space) and alone are each a malformed encoding.
Alphabet == {10, 49, 160, 194}

\* '1' alone: the sources of Spec, where only the length of the source matters
PlainBytes == {49}

\* '\n' and '1': the sources of SpecLines, where tokens fall on different lines
LineBytes == {10, 49}

\* The caller-defined token types passed to Emit.
TokenTypes == {1}

\* The messages passed to Error, as bytes ("E").
Messages == {<<69>>}

\* The strings passed to Accept and AcceptRun: "1", "1\n", " ", "\xa0".
ValidStrings == {<<49>>, <<49, 10>>, <<194, 160>>, <<160>>}

----------------------------------------------------------------------------
(* unicode/utf8 and unicode, as the code calls them. *)

IsCont(b) == b >= 128 /\ b <= 191

\* s[i..] has at least n bytes; i is a 0-based offset
Has(s, i, n) == i + n <= Len(s)

\* utf8.DecodeRuneInString(s[i:]) for a non-empty s[i:]: <<rune, width>>
DecodeRune(s, i) ==
    LET b0 == s[i + 1]
        b1 == s[i + 2]
        b2 == s[i + 3]
        b3 == s[i + 4]
        bad == <<RuneError, 1>>
    IN  IF b0 < 128 THEN <<b0, 1>>
        ELSE IF b0 >= 194 /\ b0 <= 223
        THEN IF Has(s, i, 2) /\ IsCont(b1)
             THEN <<(b0 - 192) * 64 + (b1 - 128), 2>>
             ELSE bad
        ELSE IF b0 >= 224 /\ b0 <= 239
        THEN IF /\ Has(s, i, 3)
                /\ b1 >= (IF b0 = 224 THEN 160 ELSE 128)
                /\ b1 <= (IF b0 = 237 THEN 159 ELSE 191)
                /\ IsCont(b2)
             THEN <<(b0 - 224) * 4096 + (b1 - 128) * 64 + (b2 - 128), 3>>
             ELSE bad
        ELSE IF b0 >= 240 /\ b0 <= 244
        THEN IF /\ Has(s, i, 4)
                /\ b1 >= (IF b0 = 240 THEN 144 ELSE 128)
                /\ b1 <= (IF b0 = 244 THEN 143 ELSE 191)
                /\ IsCont(b2)
                /\ IsCont(b3)
             THEN <<(b0 - 240) * 262144 + (b1 - 128) * 4096
                        + (b2 - 128) * 64 + (b3 - 128), 4>>
             ELSE bad
        ELSE bad

\* utf8.RuneLen(r)
RuneLen(r) ==
    IF r < 0 THEN -1
    ELSE IF r < 128 THEN 1
    ELSE IF r < 2048 THEN 2
    ELSE IF r >= 55296 /\ r <= 57343 THEN -1
    ELSE IF r <= 65535 THEN 3
    ELSE IF r <= 1114111 THEN 4
    ELSE -1

\* unicode.IsSpace(r); uint32(EOFRune) is above every entry of the White_Space table
IsSpace(r) ==
    IF r >= 0 /\ r <= 255
    THEN r \in {9, 10, 11, 12, 13, 32, 133, 160}
    ELSE r \in ({5760, 8232, 8233, 8239, 8287, 12288} \cup (8192 .. 8202))

\* the runes `for _, r := range s` yields
RECURSIVE RunesFrom(_, _)
RunesFrom(s, i) ==
    IF i >= Len(s) THEN {}
    ELSE LET d == DecodeRune(s, i) IN {d[1]} \cup RunesFrom(s, i + d[2])

\* strings.IndexRune(valid, r) >= 0
IndexRuneFound(valid, r) == r >= 0 /\ r <= 1114111 /\ r \in RunesFrom(valid, 0)

\* bytes.Count([]byte(s[from:to]), lineSep)
CountLines(s, from, to) == Cardinality({i \in (from + 1) .. to : s[i] = 10})

----------------------------------------------------------------------------
(* The history stack (newStack, push, pop, clear). *)

newStack == <<>>

StackPush(h, r) == Append(h, r)

\* pop: the top rune and the rest, or EOFRune when the stack is empty
StackPop(h) ==
    IF h = <<>>
    THEN [r |-> EOFRune, h |-> h]
    ELSE [r |-> h[Len(h)], h |-> SubSeq(h, 1, Len(h) - 1)]

StackClear(h) == <<>>

----------------------------------------------------------------------------
(* The cursor operations, as functions of the cursor                       *)
(* c = [start, position, line, history] over the buffer `source`.          *)

Cursor == [start |-> start, position |-> position, line |-> line, history |-> history]

\* Lexer.Current
Current(c) == SubSeq(source, c.start + 1, c.position)

\* a Next that pushes nothing at the end of the buffer
Next_NoPushAtEOF(c) ==
    IF Len(source) - c.position = 0
    THEN [c |-> c, r |-> EOFRune]
    ELSE LET d == DecodeRune(source, c.position)
         IN  [c |-> [c EXCEPT !.position = @ + d[2], !.history = StackPush(@, d[1])],
              r |-> d[1]]

\* Lexer.Next: the cursor after the call and the rune returned
Next(c) ==
    LET d == IF Len(source) - c.position = 0
             THEN <<EOFRune, 0>>
             ELSE DecodeRune(source, c.position)
    IN  [c |-> [c EXCEPT !.position = @ + d[2], !.history = StackPush(@, d[1])],
         r |-> d[1]]

\* a Backup without the clamp at start
Backup_NoClamp(c) ==
    LET p == StackPop(c.history)
    IN  IF p.r > EOFRune
        THEN [c EXCEPT !.history = p.h, !.position = @ - RuneLen(p.r)]
        ELSE [c EXCEPT !.history = p.h]

\* Lexer.Backup
Backup(c) ==
    LET p == StackPop(c.history)
        back == c.position - RuneLen(p.r)
    IN  IF p.r > EOFRune
        THEN [c EXCEPT !.history = p.h,
                       !.position = IF back < c.start THEN c.start ELSE back]
        ELSE [c EXCEPT !.history = p.h]

\* Lexer.Peek
Peek(c) == LET n == Next(c) IN [c |-> Backup(n.c), r |-> n.r]

\* Lexer.Accept
Accept(c, valid) ==
    LET n == Next(c)
    IN  IF IndexRuneFound(valid, n.r)
        THEN [c |-> n.c, ok |-> TRUE]
        ELSE [c |-> Backup(n.c), ok |-> FALSE]

\* Lexer.AcceptRun: the cursor after the call and the count returned
RECURSIVE AcceptRun(_, _)
AcceptRun(c, valid) ==
    LET n == Next(c)
    IN  IF IndexRuneFound(valid, n.r)
        THEN LET rest == AcceptRun(n.c, valid)
             IN  [c |-> rest.c, n |-> rest.n + 1]
        ELSE [c |-> Backup(n.c), n |-> 0]

\* Lexer.SkipWhitespace up to its call of Emit: the cursor, the last rune read,
\* and whether the loop left through the branch that calls Emit(EOFToken)
RECURSIVE SkipWhitespace(_)
SkipWhitespace(c) ==
    LET n == Next(c)
    IN  IF ~IsSpace(n.r)
        THEN [c |-> Backup(n.c), r |-> n.r, emit |-> FALSE]
        ELSE IF n.r = EOFRune
        THEN [c |-> n.c, r |-> n.r, emit |-> TRUE]
        ELSE SkipWhitespace(n.c)

\* Lexer.checkLines
checkLines(c) == [c EXCEPT !.line = @ + CountLines(source, c.start, c.position)]

\* an Ignore that leaves the history as it is
Ignore_KeepHistory(c) ==
    LET d == checkLines(c)
    IN  [d EXCEPT !.start = d.position]

\* an Ignore that does not count the lines of the span it drops
Ignore_NoLines(c) ==
    [c EXCEPT !.history = StackClear(@), !.start = c.position]

\* Lexer.Ignore
Ignore(c) ==
    LET d == checkLines([c EXCEPT !.history = StackClear(@)])
    IN  [d EXCEPT !.start = d.position]

\* an Emit whose token reports where the span starts instead of where it ends
EmitToken_FromStart(c, t) ==
    [type |-> t, value |-> Current(c), position |-> c.start, line |-> c.line]

\* the token Emit builds
EmitToken(c, t) ==
    [type |-> t, value |-> Current(c), position |-> c.position, line |-> c.line]

\* an Emit that moves start before it counts the lines of the span
EmitRest_StartFirst(c) ==
    checkLines([c EXCEPT !.start = c.position, !.history = StackClear(@)])

\* an Emit that does not move start past the span it sent
EmitRest_KeepStart(c) ==
    LET d == checkLines(c)
    IN  [d EXCEPT !.history = StackClear(@)]

\* Emit after its send
EmitRest(c) ==
    LET d == checkLines(c)
    IN  [d EXCEPT !.start = d.position, !.history = StackClear(@)]

\* an Error whose token carries the zero type
ErrorTok_ZeroType(c, msg) ==
    [type |-> EOFToken, value |-> msg, position |-> c.position, line |-> c.line]

\* the token Error builds
ErrorTok(c, msg) ==
    [type |-> ErrorToken, value |-> msg, position |-> c.position, line |-> c.line]

----------------------------------------------------------------------------
(* The token channel. *)

\* the capacity StartSync gives the channel
BuffSize == IF Len(source) \div 2 <= 0 THEN 1 ELSE Len(source) \div 2

\* l.tokens <- tok, once there is room
ChanSend(q, tok) == Append(q, tok)

\* a receive that takes the newest queued token instead of the oldest
ChanRecv_Newest(q) == [tok |-> q[Len(q)], rest |-> SubSeq(q, 1, Len(q) - 1)]

\* tok, ok := <-l.tokens on a non-empty buffer: the token and what stays queued
ChanRecv(q) == [tok |-> Head(q), rest |-> Tail(q)]

closed == closes > 0

NoToken == [type |-> EOFToken, value |-> <<>>, position |-> 0, line |-> 0]

----------------------------------------------------------------------------
(* Initial states: New(src, start) for every source within the bounds. *)

RECURSIVE SeqsUpTo(_, _)
SeqsUpTo(S, n) ==
    IF n = 0 THEN {<<>>}
    ELSE LET shorter == SeqsUpTo(S, n - 1)
         IN  shorter \cup {Append(q, b) : q \in shorter, b \in S}

\* New(src, start) for the source src
New(src) ==
    /\ source = src
    /\ start = 0
    /\ line = 1
    /\ position = 0
    /\ history = newStack
    /\ made = FALSE
    /\ buf = <<>>
    /\ closes = 0
    /\ mode = "none"
    /\ rpc = "new"
    /\ pending = NoToken
    /\ cpc = "idle"
    /\ chRef = "nil"
    /\ received = <<>>
    /\ donePulls = 0
    /\ emitted = <<>>

\* every source of digits within the bounds
Init == \E src \in SeqsUpTo(PlainBytes, MaxLen) : New(src)

\* every source within the bounds, well-formed or not
InitAnyBytes == \E src \in SeqsUpTo(Alphabet, MaxBytes) : New(src)

\* every source of digits and newlines within the bounds
InitLines == \E src \in SeqsUpTo(LineBytes, MaxBytes) : New(src)

SetCursor(c) ==
    /\ start' = c.start
    /\ position' = c.position
    /\ line' = c.line
    /\ history' = c.history

----------------------------------------------------------------------------
(* Starting the lexer. *)

\* Lexer.Start: `go l.StartSync()`; the goroutine has not run yet
Start ==
    /\ rpc = "new"
    /\ mode' = "async"
    /\ rpc' = "make"
    /\ UNCHANGED <<source, cursorVars, chanVars, pending, consumerVars>>

\* Lexer.StartSync called by the consumer's own thread
StartSync ==
    /\ rpc = "new"
    /\ mode' = "sync"
    /\ rpc' = "make"
    /\ UNCHANGED <<source, cursorVars, chanVars, pending, consumerVars>>

\* StartSync's body up to l.run(): l.tokens = make(chan Token, buffSize)
MakeTokens ==
    /\ rpc = "make"
    /\ made' = TRUE
    /\ rpc' = "run"
    /\ UNCHANGED <<source, cursorVars, buf, closes, emitted, mode, pending, consumerVars>>

----------------------------------------------------------------------------
(* What a state function may do while the runner is inside it (rpc = "run"). *)

InState == rpc = "run"

CursorStep(c) ==
    /\ Len(c.history) <= MaxHist
    /\ SetCursor(c)
    /\ UNCHANGED <<source, chanVars, mode, rpc, pending, consumerVars>>

DoNext == InState /\ CursorStep(Next(Cursor).c)

DoBackup == InState /\ CursorStep(Backup(Cursor))

DoPeek == InState /\ CursorStep(Peek(Cursor).c)

DoAccept == InState /\ \E valid \in ValidStrings : CursorStep(Accept(Cursor, valid).c)

DoAcceptRun == InState /\ \E valid \in ValidStrings : CursorStep(AcceptRun(Cursor, valid).c)

DoIgnore == InState /\ CursorStep(Ignore(Cursor))

\* l.tokens <- tok from cursor c, followed by `rest` of the sender; the send
\* blocks (rpc becomes `blocked`) while the buffer is full
SendFrom(c, tok, rest, blocked, after) ==
    IF Len(buf) < BuffSize
    THEN /\ buf' = ChanSend(buf, tok)
         /\ emitted' = Append(emitted, tok)
         /\ SetCursor(rest)
         /\ rpc' = after
         /\ pending' = NoToken
         /\ UNCHANGED <<source, made, closes, mode, consumerVars>>
    ELSE /\ SetCursor(c)
         /\ rpc' = blocked
         /\ pending' = tok
         /\ UNCHANGED <<source, chanVars, mode, consumerVars>>

\* Lexer.Emit
EmitFrom(c, t) == SendFrom(c, EmitToken(c, t), EmitRest(c), "send", "run")

DoEmit ==
    /\ InState
    /\ Len(emitted) < MaxTokens
    /\ \E t \in TokenTypes : EmitFrom(Cursor, t)

\* Lexer.Emit resuming once the channel has room
EmitResume ==
    /\ rpc = "send"
    /\ Len(buf) < BuffSize
    /\ SendFrom(Cursor, pending, EmitRest(Cursor), "send", "run")

\* Lexer.SkipWhitespace
DoSkipWhitespace ==
    /\ InState
    /\ LET res == SkipWhitespace(Cursor)
       IN  /\ Len(res.c.history) <= MaxHist
           /\ IF res.emit
              THEN Len(emitted) < MaxTokens /\ EmitFrom(res.c, EOFToken)
              ELSE CursorStep(res.c)

\* Lexer.Error up to its return; the state function then holds the nil it returned
DoError ==
    /\ InState
    /\ Len(emitted) < MaxTokens
    /\ \E msg \in Messages :
          SendFrom(Cursor, ErrorTok(Cursor, msg), Cursor, "senderr", "errret")

\* Lexer.Error resuming once the channel has room
ErrorResume ==
    /\ rpc = "senderr"
    /\ Len(buf) < BuffSize
    /\ SendFrom(Cursor, pending, Cursor, "senderr", "errret")

\* run's loop leaving on state == nil, and close(l.tokens)
RunExit ==
    /\ closes' = closes + 1
    /\ rpc' = "done"
    /\ UNCHANGED <<source, cursorVars, made, buf, emitted, mode, pending, consumerVars>>

\* a state function returns nil
ReturnNil == InState /\ RunExit

\* `return l.Error(...)`: the state function returns what Error returned
ReturnErrorResult == rpc = "errret" /\ RunExit

\* the state function drops what Error returned and goes on
DiscardErrorResult ==
    /\ rpc = "errret"
    /\ rpc' = "run"
    /\ UNCHANGED <<source, cursorVars, chanVars, mode, pending, consumerVars>>

----------------------------------------------------------------------------
(* The consumer: NextToken (a receive from Tokens() behaves the same). *)

\* The consumer runs after Start has returned, or after StartSync has.
ConsumerRuns == mode = "async" \/ (mode = "sync" /\ rpc = "done")

\* a NextToken that drops the receive's ok: the zero Token of a closed channel is
\* returned as a token
Receive_IgnoreOk ==
    /\ received' = Append(received, IF buf # <<>> THEN ChanRecv(buf).tok ELSE NoToken)
    /\ buf' = IF buf # <<>> THEN ChanRecv(buf).rest ELSE buf
    /\ UNCHANGED donePulls

\* the receive of NextToken completing on the channel
Receive ==
    IF buf # <<>>
    THEN /\ received' = Append(received, ChanRecv(buf).tok)
         /\ buf' = ChanRecv(buf).rest
         /\ UNCHANGED donePulls
    ELSE /\ donePulls' = IF donePulls < MaxDonePulls THEN donePulls + 1 ELSE donePulls
         /\ UNCHANGED <<received, buf>>

\* The consumer has read the channel out of l.tokens before.
Observed == received # <<>> \/ donePulls > 0

\* What NextToken's read of l.tokens can yield.  Under Start the assignment in
\* StartSync is made by the goroutine and nothing orders it with this read: until
\* the consumer has once read the channel, the read may still yield nil.
TokensRead ==
    IF ~made THEN {"nil"}
    ELSE IF mode = "async" /\ ~Observed THEN {"nil", "chan"}
    ELSE {"chan"}

\* Lexer.NextToken when the receive can complete at once
NextToken ==
    /\ cpc = "idle"
    /\ ConsumerRuns
    /\ "chan" \in TokensRead
    /\ buf # <<>> \/ closed
    /\ Receive
    /\ UNCHANGED <<source, cursorVars, made, closes, emitted, mode, rpc, pending, cpc, chRef>>

\* Lexer.NextToken when it cannot: the receive parks on the value read from
\* l.tokens, on a nil channel for good
NextTokenPark ==
    /\ cpc = "idle"
    /\ ConsumerRuns
    /\ \E ref \in TokensRead :
          /\ ref = "nil" \/ (buf = <<>> /\ ~closed)
          /\ chRef' = ref
    /\ cpc' = "recv"
    /\ UNCHANGED <<source, cursorVars, chanVars, mode, rpc, pending, received, donePulls>>

\* a parked receive completing; a receive from a nil channel never does
NextTokenWake ==
    /\ cpc = "recv"
    /\ chRef = "chan"
    /\ buf # <<>> \/ closed
    /\ Receive
    /\ cpc' = "idle"
    /\ UNCHANGED <<source, cursorVars, made, closes, emitted, mode, rpc, pending, chRef>>

----------------------------------------------------------------------------

Producer ==
    \/ Start
    \/ StartSync
    \/ MakeTokens
    \/ DoNext
    \/ DoBackup
    \/ DoPeek
    \/ DoAccept
    \/ DoAcceptRun
    \/ DoSkipWhitespace
    \/ DoIgnore
    \/ DoEmit
    \/ EmitResume
    \/ DoError
    \/ ErrorResume
    \/ ReturnNil
    \/ ReturnErrorResult
    \/ DiscardErrorResult

Consumer ==
    \/ NextToken
    \/ NextTokenPark
    \/ NextTokenWake

Step == Producer \/ Consumer

\* Both execution modes, over sources of digits.
Spec == Init /\ [][Step]_vars

\* Synchronous execution alone, over arbitrary bytes: the consumer's thread runs
\* StartSync and pulls afterwards, so no send resumes and no receive parks.
SyncStep ==
    \/ StartSync
    \/ MakeTokens
    \/ DoNext
    \/ DoBackup
    \/ DoPeek
    \/ DoAccept
    \/ DoAcceptRun
    \/ DoSkipWhitespace
    \/ DoIgnore
    \/ DoEmit
    \/ DoError
    \/ ReturnNil
    \/ ReturnErrorResult
    \/ DiscardErrorResult
    \/ NextToken

SpecSync == InitAnyBytes /\ [][SyncStep]_vars

\* Both modes over short sources of digits and newlines.
SpecLines == InitLines /\ [][Step]_vars

----------------------------------------------------------------------------
(* Properties. *)

Last(q) == q[Len(q)]

\* C1: in both execution modes the tokens the consumer has received, followed by
\* the tokens still queued, are exactly the tokens sent by Emit and Error, in the
\* order of the sends: none lost, duplicated or reordered.
C1_FifoOrder == emitted = received \o buf

\* a synchronous run whose two different tokens were queued together and have
\* both been pulled, followed by the end of the stream
C1_Witness ==
    /\ mode = "sync"
    /\ Len(received) = 2
    /\ received[1] # received[2]
    /\ received = emitted
    /\ donePulls > 0

\* C2: in synchronous mode no send of the run waits for room: StartSync runs to
\* its return whatever the number of tokens sent relative to the capacity.
C2_StartSyncNeverWaits ==
    (mode = "sync" /\ rpc \in {"send", "senderr"}) => Len(buf) < BuffSize

\* C3: a pull blocks only while the queue is empty and not yet closed: a parked
\* NextToken can complete as soon as a token is queued or the queue is closed.
C3_PullBlocksOnlyWhileEmptyAndOpen ==
    (cpc = "recv" /\ (buf # <<>> \/ closed)) => ENABLED NextTokenWake

\* C4: the queue is closed exactly once, when the run ends; nothing is sent after
\* the close; a pull made on the closed and drained queue returns (nil, true) and
\* no pull after that returns a token.
C4_ClosedIsFinal ==
    /\ [](closes <= 1 /\ (closed <=> rpc = "done"))
    /\ [][closed => (closes' = closes /\ emitted' = emitted)]_vars
    /\ [][donePulls > 0 => (received' = received /\ donePulls' >= donePulls)]_vars
    /\ [][((NextToken \/ NextTokenWake) /\ closed /\ buf = <<>>)
            => (received' = received /\ donePulls' = IF donePulls < MaxDonePulls
                                                    THEN donePulls + 1
                                                    ELSE donePulls)]_vars

\* every sent token pulled, then the end of the stream returned twice
C4_Witness ==
    /\ closes = 1
    /\ emitted # <<>>
    /\ received = emitted
    /\ donePulls = 2

\* C5 as stated: once Error has sent its token, that token is the last one of the run.
C5_ErrorTokenIsLast ==
    \A i \in 1 .. Len(emitted) : emitted[i].type = ErrorToken => i = Len(emitted)

\* C5 as amended: Error sends one token of type ErrorToken that carries the
\* position and line of the call, and hands nil to the state function; when the
\* state function returns that nil, the error token is the last token sent, the
\* run stops and the queue is closed, and nothing is sent afterwards.
C5_ReturnedErrorEndsRun ==
    /\ [][ReturnErrorResult =>
            /\ emitted # <<>>
            /\ Last(emitted).type = ErrorToken
            /\ Last(emitted).position = position
            /\ Last(emitted).line = line
            /\ emitted' = emitted
            /\ rpc' = "done"
            /\ closed']_vars
    /\ [][rpc = "done" => (rpc' = "done" /\ emitted' = emitted)]_vars

\* a run ended by an error after one token: the consumer has pulled the token,
\* then the error token, then the end of the stream
C5_Witness ==
    /\ rpc = "done"
    /\ Len(emitted) = 2
    /\ emitted[1].type \in TokenTypes
    /\ emitted[2].type = ErrorToken
    /\ received = emitted
    /\ donePulls > 0

\* C6: a SkipWhitespace that reads the end of the source sends, or is sending, one
\* token of type EOFToken.
C6_SkipWhitespaceEmitsEOF ==
    [][(DoSkipWhitespace /\ SkipWhitespace(Cursor).r = EOFRune)
         => \/ emitted' = Append(emitted, EmitToken(SkipWhitespace(Cursor).c, EOFToken))
            \/ rpc' = "send" /\ pending'.type = EOFToken]_vars

RECURSIVE NextN(_, _)
NextN(c, n) == IF n = 0 THEN c ELSE NextN(Next(c).c, n - 1)

RECURSIVE BackupN(_, _)
BackupN(c, n) == IF n = 0 THEN c ELSE BackupN(Backup(c), n - 1)

\* C7: from every cursor state, N calls of Next followed by N calls of Backup
\* restore position and Current().
C7_RoundTripBackup ==
    \A n \in 0 .. MaxN :
        LET d == BackupN(NextN(Cursor, n), n)
        IN  d.position = position /\ Current(d) = Current(Cursor)

RECURSIVE PeekN(_, _)
PeekN(c, n) == IF n = 0 THEN c ELSE PeekN(Peek(c).c, n - 1)

\* C8: from every cursor state, each of any number of consecutive Peek calls
\* returns the rune Next would return, and they leave position, start and the
\* history as they were.
C8_IdempotentPeek ==
    \A n \in 0 .. MaxN :
        LET c == PeekN(Cursor, n)
        IN  /\ c.position = position
            /\ c.start = start
            /\ c.history = history
            /\ Peek(c).r = Next(Cursor).r

\* the code points from offset i on that belong to valid, up to the first that
\* does not or the end of the buffer: <<how many, how many bytes>>
RECURSIVE MemberPrefix(_, _)
MemberPrefix(i, valid) ==
    IF i >= Len(source) THEN <<0, 0>>
    ELSE LET d == DecodeRune(source, i)
         IN  IF IndexRuneFound(valid, d[1])
             THEN LET rest == MemberPrefix(i + d[2], valid)
                  IN  <<rest[1] + 1, rest[2] + d[2]>>
             ELSE <<0, 0>>

\* C9: AcceptRun(valid) returns the number of code points of the maximal prefix
\* in valid and leaves position just after that prefix.
C9_MaximalRun ==
    rpc = "run" =>
        \A valid \in ValidStrings :
            LET res == AcceptRun(Cursor, valid)
                pre == MemberPrefix(position, valid)
            IN  res.n = pre[1] /\ res.c.position = position + pre[2]

\* the tokens Emit built: those sent, and the one a blocked Emit holds
EmitTokens ==
    {emitted[i] : i \in {j \in 1 .. Len(emitted) : emitted[j].type # ErrorToken}}
        \cup (IF rpc = "send" THEN {pending} ELSE {})

\* C10: line is 1 plus the number of newlines in source[0:start], and every token
\* built by Emit carries 1 plus the number of newlines before its span.
C10_LineAccounting ==
    /\ line = 1 + CountLines(source, 0, start)
    /\ \A t \in EmitTokens :
          t.line = 1 + CountLines(source, 0, t.position - Len(t.value))

\* a first token from line 1 has been sent and a second one, from line 2, is
\* being sent
C10_Witness ==
    /\ Len(emitted) = 1
    /\ emitted[1].type \in TokenTypes
    /\ emitted[1].line = 1
    /\ rpc = "send"
    /\ pending.line = 2
    /\ pending.value # <<>>

\* a step in which an Emit completes its send
EmitDone == Len(emitted') = Len(emitted) + 1 /\ Last(emitted').type # ErrorToken

\* C11: right after Emit or Ignore the history is empty and start is position, so
\* Backup changes nothing; position is never below start.
C11_BoundaryClearsHistory ==
    /\ [][(DoIgnore \/ EmitDone) =>
            /\ history' = <<>>
            /\ start' = position'
            /\ Backup(Cursor)' = Cursor']_vars
    /\ [](start <= position)

\* a boundary passed after two reads: nothing is left to back up over
C11_Witness ==
    /\ rpc = "run"
    /\ start = 2
    /\ position = 2
    /\ history = <<>>

\* C12 as stated: Next at the end of the buffer changes neither position nor the
\* history.
C12_NextAtEndPushesNothing ==
    [][(DoNext /\ position = Len(source)) => (position' = position /\ history' = history)]_vars

\* C12 as amended: Next on unread bytes returns the decoded code point, advances
\* position by its width and pushes it; at the end of the buffer it returns
\* EOFRune, leaves position unchanged and pushes EOFRune, each time it is called,
\* so that the Backup that follows pops that entry and moves nothing.
C12_NextPushesAlways ==
    /\ [][DoNext =>
            IF position < Len(source)
            THEN /\ position' - position = DecodeRune(source, position)[2]
                 /\ position' > position
                 /\ history' = Append(history, Next(Cursor).r)
                 /\ Next(Cursor).r = DecodeRune(source, position)[1]
                 /\ Next(Cursor).r # EOFRune
            ELSE /\ position' = position
                 /\ history' = Append(history, EOFRune)
                 /\ Next(Cursor).r = EOFRune
                 /\ Backup(Cursor)' = Cursor]_vars
    /\ [](position = Len(source) =>
            /\ Next(Cursor).r = EOFRune
            /\ Next(Cursor).c = [Cursor EXCEPT !.history = Append(@, EOFRune)]
            /\ Backup(Next(Cursor).c) = Cursor)

\* Next called twice at the end of a non-empty buffer
C12_Witness ==
    /\ Len(source) > 0
    /\ position = Len(source)
    /\ Len(history) = 2
    /\ history[1] = EOFRune
    /\ history[2] = EOFRune

\* C13: an Emit(t) that completes enqueues exactly one token, with Type t, Value
\* source[start:position], Position position and Line line as they are at the
\* call; then start is position, position is unchanged, the history is empty and
\* line has grown by the newlines of the span.  An Emit that finds the queue full
\* holds that token and changes nothing.
C13_EmitEffect ==
    [][(DoEmit \/ EmitResume) =>
         LET span == SubSeq(source, start + 1, position)
             toks == IF rpc = "send"
                     THEN {pending}
                     ELSE {[type |-> t, value |-> span, position |-> position,
                            line |-> line] : t \in TokenTypes}
         IN  IF Len(buf) < BuffSize
             THEN /\ \E tok \in toks :
                        /\ tok.value = span /\ tok.position = position /\ tok.line = line
                        /\ emitted' = Append(emitted, tok)
                        /\ buf' = Append(buf, tok)
                  /\ start' = position
                  /\ position' = position
                  /\ history' = <<>>
                  /\ line' = line + CountLines(source, start, position)
             ELSE /\ pending' \in toks
                  /\ UNCHANGED <<start, position, line, history, buf, emitted>>]_vars

\* a token whose span holds a newline has been sent from line 1
C13_Witness ==
    /\ Len(emitted) = 1
    /\ emitted[1].type \in TokenTypes
    /\ emitted[1].value = <<49, 10>>
    /\ emitted[1].position = 2
    /\ emitted[1].line = 1
    /\ line = 2
    /\ start = 2
    /\ history = <<>>

\* C14: under Start the runner and the consumer share nothing but the queue's own
\* operations: the runner's write of l.tokens and the consumer's read of it are
\* never both ready to run, and the consumer never acts on a value of l.tokens
\* other than the channel the runner stored.
C14_QueueIsOnlySharedState ==
    /\ ~(ENABLED MakeTokens /\ ENABLED NextTokenPark)
    /\ (made /\ cpc = "recv") => chRef = "chan"

\* C15: 0 <= start <= position <= len(source) in every reachable state; start
\* changes only in a completed Emit or an Ignore, and only upwards.
C15_CursorInvariant ==
    /\ [](0 <= start /\ start <= position /\ position <= Len(source))
    /\ [][start' # start => (start' > start /\ (DoIgnore \/ EmitDone))]_vars

\* past a boundary, with a malformed byte read whose entry is longer than the
\* pending span: the next Backup is held at start by the clamp
C15_Witness ==
    /\ start > 0
    /\ position > start
    /\ history # <<>>
    /\ Last(history) > EOFRune
    /\ position - RuneLen(Last(history)) < start

\* utf8.RuneCountInString(s[i:])
RECURSIVE RuneCountFrom(_, _)
RuneCountFrom(s, i) ==
    IF i >= Len(s) THEN 0 ELSE 1 + RuneCountFrom(s, i + DecodeRune(s, i)[2])

\* C16: the history holds no more decoded runes than the pending span
\* source[start:position] has code points.  The EOFRune entries of reads at the
\* end of the buffer (C12) are left out of the count.
C16_HistoryWithinSpan ==
    Cardinality({i \in 1 .. Len(history) : history[i] # EOFRune})
        <= RuneCountFrom(Current(Cursor), 0)

\* C17: a Backup right after a Next restores position and the history, and its
\* retreat is the popped entry's own length, not the clamp at start.
C17_BackupUndoesNext ==
    position < Len(source) =>
        LET n == Next(Cursor)
            b == Backup(n.c)
        IN  /\ b.position = position
            /\ b.history = history
            /\ n.c.position - RuneLen(n.r) >= start

\* C18: Ignore leaves the cursor exactly as a completed Emit from the same state
\* would (start = position, position unchanged, history empty, line advanced over
\* the span), leaves the queue and what was sent unchanged, and can run whenever
\* the runner is in a state function, full queue or not.
C18_IgnoreLikeEmit ==
    /\ [](Ignore(Cursor) = EmitRest(Cursor))
    /\ [](rpc = "run" => ENABLED DoIgnore)
    /\ [][DoIgnore =>
            /\ start' = position
            /\ position' = position
            /\ history' = <<>>
            /\ line' = line + CountLines(source, start, position)
            /\ UNCHANGED <<buf, emitted, pending, rpc>>]_vars

\* a newline ignored while the queue is full: "1" was sent, "\n" was dropped
C18_Witness ==
    /\ rpc = "run"
    /\ Len(buf) = BuffSize
    /\ Len(emitted) = 1
    /\ emitted[1].position = 1
    /\ start = 2
    /\ position = 2
    /\ line = 2
    /\ history = <<>>

\* C19: the queue never holds more than max(1, len(source) / 2) tokens, and
\* whenever the runner under Start is blocked in Emit or Error on a full queue, a
\* pull by the consumer can complete, which makes room for the runner.
C19_BackPressure ==
    /\ Len(buf) <= (IF Len(source) \div 2 < 1 THEN 1 ELSE Len(source) \div 2)
    /\ (mode = "async" /\ rpc \in {"send", "senderr"} /\ Len(buf) = BuffSize)
          => ENABLED (NextToken \/ NextTokenWake)

\* the queue stays within its capacity
C19_QueueBounded == Len(buf) <= BuffSize

\* the runner under Start is blocked on a full queue and the consumer is idle
C19_BlockedReachable ==
    mode = "async" /\ rpc \in {"send", "senderr"} /\ Len(buf) = BuffSize /\ cpc = "idle"

\* the places in emitted of the tokens Emit sent
EmitIdx == {i \in 1 .. Len(emitted) : emitted[i].type # ErrorToken}

\* the byte offset at which the span of an Emit token begins
SpanStart(tok) == tok.position - Len(tok.value)

\* Each token sent by Emit carries source[Position - len(Value) : Position], and
\* the span of a later one begins at or after the end of an earlier one.
EmitSpansInOrder ==
    /\ \A i \in EmitIdx :
          /\ SpanStart(emitted[i]) >= 0
          /\ emitted[i].value
                = SubSeq(source, SpanStart(emitted[i]) + 1, emitted[i].position)
          /\ emitted[i].position <= start
    /\ \A i, j \in EmitIdx : i < j => emitted[i].position <= SpanStart(emitted[j])

\* C20 as stated: the Emit tokens carry disjoint spans in order, and over all
\* tokens sent, error tokens included, Position and Line never decrease in send
\* order.
C20_PositionsNeverDecrease ==
    /\ EmitSpansInOrder
    /\ \A i, j \in 1 .. Len(emitted) :
          i < j => /\ emitted[i].position <= emitted[j].position
                   /\ emitted[i].line <= emitted[j].line

\* C20 as amended: the Emit tokens carry disjoint spans in order, each beginning
\* at start, the end of the span last emitted or ignored; Line never decreases
\* over all tokens sent; Position never decreases over the Emit tokens, and an
\* error token's Position is not below that of any Emit token sent before it.
C20_OrderedSpans ==
    /\ [](EmitSpansInOrder)
    /\ [](\A i, j \in 1 .. Len(emitted) : i < j => emitted[i].line <= emitted[j].line)
    /\ [](\A i \in EmitIdx : \A j \in 1 .. Len(emitted) :
             i < j => emitted[i].position <= emitted[j].position)
    /\ [][EmitDone => SpanStart(Last(emitted')) = start]_vars

\* two tokens sent by Emit from different lines: "\n" and then "1"
C20_Witness ==
    /\ Len(emitted) = 2
    /\ emitted[1].type # ErrorToken
    /\ emitted[2].type # ErrorToken
    /\ emitted[1].value = <<10>>
    /\ emitted[2].value = <<49>>
    /\ emitted[1].line = 1
    /\ emitted[2].line = 2
    /\ emitted[2].position = 2

====
